---- MODULE Spec2Model ----
(***************************************************************************)
(* A model of cristalhq/acmd: the sub-command runner of src/acmd.go        *)
(* (RunnerOf, Runner.init, ParseOptions, validateCommand, findCmd,         *)
(* suggestCommand, Runner.Run, Runner.Exit), the Levenshtein distance of   *)
(* strDistance and the ErrCode error of src/errors.go.                     *)
(*                                                                         *)
(* A Go string is a sequence of one-character strings (<<"f","o","o">>),   *)
(* so that it can be indexed, compared bytewise and measured.  Text that   *)
(* is written to Config.Output or returned by Error() is a TLA+ string,    *)
(* built by concatenation the way fmt builds it.                           *)
(***************************************************************************)
EXTENDS Integers, Sequences, FiniteSets, TLC

VARIABLES
    pc,         \* where the caller is: "start", "built", "panic", "exited",
                \* or "call" and "returned" around one call of a pure function
    declared,   \* the command list RunnerOf was called with, as the caller wrote it
    r,          \* the Runner: cfg, cmds, opts, errInit, ctx, args
    out,        \* what was written to Config.Output, one element per write
    calls,      \* the handlers invoked so far: [do, ctx, args, result]
    usageCalls, \* the calls of Config.Usage so far: [fn, cfg, cmds, opts]
    runs,       \* number of completed Run calls
    ret,        \* the error returned by the last Run, or given to Exit (NoErr: nil)
    exits,      \* the calls of doExit so far: [status, after], after being
                \* the number of writes made before the call
    fnArgs,     \* the arguments of the pure function under check
    fnResult    \* what it returned

vars == <<pc, declared, r, out, calls, usageCalls, runs, ret, exits, fnArgs, fnResult>>

----------------------------------------------------------------------------
(* Strings *)

Range(s) == {s[i] : i \in DOMAIN s}

\* The byte value of each character the model uses (ASCII).
Ascii ==
    ("%" :> 37) @@ ("-" :> 45) @@ ("." :> 46) @@ ("/" :> 47) @@ ("0" :> 48) @@
    ("9" :> 57) @@ (":" :> 58) @@ ("A" :> 65) @@ ("I" :> 73) @@ ("N" :> 78) @@
    ("O" :> 79) @@ ("Z" :> 90) @@ ("_" :> 95) @@ ("a" :> 97) @@ ("b" :> 98) @@
    ("c" :> 99) @@ ("d" :> 100) @@ ("e" :> 101) @@ ("f" :> 102) @@
    ("g" :> 103) @@ ("h" :> 104) @@ ("i" :> 105) @@ ("k" :> 107) @@
    ("l" :> 108) @@ ("m" :> 109) @@ ("n" :> 110) @@ ("o" :> 111) @@
    ("p" :> 112) @@ ("r" :> 114) @@ ("s" :> 115) @@ ("t" :> 116) @@
    ("u" :> 117) @@ ("v" :> 118) @@ ("x" :> 120) @@ ("y" :> 121) @@
    ("z" :> 122) @@ ("\"" :> 34)

\* Go's a < b on strings: bytewise lexicographic order.
RECURSIVE StrLess(_, _)
StrLess(a, b) ==
    IF Len(b) = 0 THEN FALSE
    ELSE IF Len(a) = 0 THEN TRUE
    ELSE IF Ascii[Head(a)] # Ascii[Head(b)] THEN Ascii[Head(a)] < Ascii[Head(b)]
    ELSE StrLess(Tail(a), Tail(b))

\* strings.HasPrefix
HasPrefix(s, p) == Len(s) >= Len(p) /\ SubSeq(s, 1, Len(p)) = p

\* The text of a Go string, as fmt's %s writes it.
RECURSIVE Str(_)
Str(s) == IF Len(s) = 0 THEN "" ELSE Head(s) \o Str(Tail(s))

\* fmt's %q of a string of printable characters without quotes or backslashes.
Quote(s) == "\"" \o Str(s) \o "\""

\* The names and tokens of the tests and examples.
test == <<"t", "e", "s", "t">>
foo == <<"f", "o", "o">>
for == <<"f", "o", "r">>
bar == <<"b", "a", "r">>
status == <<"s", "t", "a", "t", "u", "s">>
help == <<"h", "e", "l", "p">>
version == <<"v", "e", "r", "s", "i", "o", "n">>
root == <<"r", "o", "o", "t">>
xyz == <<"x", "y", "z">>
fooo == <<"f", "o", "o", "o">>
myapp == <<"m", "y", "a", "p", "p">>
someapp == <<".", "/", "s", "o", "m", "e", "a", "p", "p">>
EmptyStr == <<>>

----------------------------------------------------------------------------
(* Errors: src/errors.go and the errors package.  An error is its chain of *)
(* layers, outermost first, as errors.Unwrap walks it; nil is the empty    *)
(* chain.  A layer keeps the format it was made with and its own text.     *)

NoErr == <<>>

\* ErrCode(n), src/errors.go:6-10: Error() is "code <n>".
ErrCode(n) == <<[type |-> "ErrCode", format |-> "code %d", text |-> "code " \o ToString(n), code |-> n]>>

\* errors.New(text) and fmt.Errorf(format, ...) without %w.
ErrorString(format, text) == <<[type |-> "errorString", format |-> format, text |-> text, code |-> 0]>>

RECURSIVE ErrorText(_)

\* fmt.Errorf(prefix + "%v", err): the text of err, but not err itself.
WrapErrorAsText(prefix, err) == ErrorString(prefix \o "%v", prefix \o ErrorText(err))

\* fmt.Errorf(prefix + "%w", err): the text is the prefix followed by err's.
WrapError(prefix, err) == <<[type |-> "wrapError", format |-> prefix \o "%w", text |-> prefix, code |-> 0]>> \o err

\* err.Error()
ErrorText(err) ==
    IF Len(err) = 0 THEN ""
    ELSE IF Head(err).type = "wrapError" THEN Head(err).text \o ErrorText(Tail(err))
    ELSE Head(err).text

\* errors.As(err, &errCode) with errCode preset to dflt: the first ErrCode of
\* the chain, or dflt when the chain holds none.
RECURSIVE AsErrCode(_, _)
AsErrCode(err, dflt) ==
    IF Len(err) = 0 THEN dflt
    ELSE IF Head(err).type = "ErrCode" THEN Head(err).code
    ELSE IF Head(err).type = "wrapError" THEN AsErrCode(Tail(err), dflt)
    ELSE dflt

\* init finding nothing wrong in arguments without a command.
ErrNoArgsUnset == NoErr

\* var ErrNoArgs = errors.New("no args provided")
ErrNoArgs == ErrorString("no args provided", "no args provided")

----------------------------------------------------------------------------
(* Commands: src/acmd.go:32-51.  Do is a function value: NilFunc, or the   *)
(* handler the caller wrote at a place of the declared tree, or one of the *)
(* two builtin closures of Runner.init.                                    *)

NilFunc == [fn |-> "nil", at |-> <<>>]
UserFunc(path) == [fn |-> "user", at |-> path]
HelpFunc == [fn |-> "help", at |-> <<>>]
VersionFunc == [fn |-> "version", at |-> <<>>]

Command(name, alias, do, subs) ==
    [Name |-> name, Alias |-> alias, Description |-> "", Do |-> do,
     Subcommands |-> subs, IsHidden |-> FALSE]

\* sort.Slice(cmds, func(i, j) bool { return cmds[i].Name < cmds[j].Name }):
\* an insertion sort, which is what sort.Slice runs on fewer than 12 elements.
RECURSIVE InsertByName(_, _)
InsertByName(sorted, c) ==
    IF Len(sorted) = 0 THEN <<c>>
    ELSE IF StrLess(c.Name, sorted[Len(sorted)].Name)
         THEN Append(InsertByName(SubSeq(sorted, 1, Len(sorted) - 1), c), sorted[Len(sorted)])
         ELSE Append(sorted, c)

\* sort.Slice leaving the slice as it is.
SortByNameKeep(cmds) == cmds

RECURSIVE SortByName(_)
SortByName(cmds) ==
    IF Len(cmds) = 0 THEN <<>>
    ELSE InsertByName(SortByName(SubSeq(cmds, 1, Len(cmds) - 1)), cmds[Len(cmds)])

----------------------------------------------------------------------------
(* Validation: src/acmd.go:257-324.  validateSubcommands sorts the slice   *)
(* it is given in place, so each result carries the tree as it is left.    *)

\* isStringValid, src/acmd.go:313-324
IsNameChar(c) ==
    \/ (Ascii["A"] <= Ascii[c] /\ Ascii[c] <= Ascii["Z"])
    \/ (Ascii["a"] <= Ascii[c] /\ Ascii[c] <= Ascii["z"])
    \/ (Ascii["0"] <= Ascii[c] /\ Ascii[c] <= Ascii["9"])
    \/ c = "-"
    \/ c = "_"

isStringValid(s) ==
    IF Len(s) = 0 THEN FALSE
    ELSE \A i \in DOMAIN s : IsNameChar(s[i])

\* validateCommand without the case of a handler together with subcommands.
HandlerRuleErrorNilOnly(cmd) ==
    IF cmd.Do = NilFunc /\ Len(cmd.Subcommands) = 0
    THEN ErrorString("command %q function cannot be nil or must have subcommands",
                     "command " \o Quote(cmd.Name) \o " function cannot be nil or must have subcommands")
    ELSE NoErr

\* The first two cases of validateCommand's switch: Do and Subcommands.
HandlerRuleError(cmd) ==
    IF cmd.Do = NilFunc /\ Len(cmd.Subcommands) = 0
    THEN ErrorString("command %q function cannot be nil or must have subcommands",
                     "command " \o Quote(cmd.Name) \o " function cannot be nil or must have subcommands")
    ELSE IF cmd.Do # NilFunc /\ Len(cmd.Subcommands) # 0
    THEN ErrorString("command %q function cannot be set and have subcommands",
                     "command " \o Quote(cmd.Name) \o " function cannot be set and have subcommands")
    ELSE NoErr

\* validateCommand without the case of a reserved alias.
NameRuleErrorAliasFree(cmd) ==
    IF cmd.Name = help \/ cmd.Name = version
    THEN ErrorString("command %q is reserved", "command " \o Quote(cmd.Name) \o " is reserved")
    ELSE IF ~isStringValid(cmd.Name)
    THEN ErrorString("command %q must contains only letters, digits, - and _",
                     "command " \o Quote(cmd.Name) \o " must contains only letters, digits, - and _")
    ELSE IF cmd.Alias # EmptyStr /\ ~isStringValid(cmd.Alias)
    THEN ErrorString("command alias %q must contains only letters, digits, - and _",
                     "command alias " \o Quote(cmd.Alias) \o " must contains only letters, digits, - and _")
    ELSE NoErr

\* validateCommand without the cases of the reserved words.
NameRuleErrorPatternOnly(cmd) ==
    IF ~isStringValid(cmd.Name)
    THEN ErrorString("command %q must contains only letters, digits, - and _",
                     "command " \o Quote(cmd.Name) \o " must contains only letters, digits, - and _")
    ELSE IF cmd.Alias # EmptyStr /\ ~isStringValid(cmd.Alias)
    THEN ErrorString("command alias %q must contains only letters, digits, - and _",
                     "command alias " \o Quote(cmd.Alias) \o " must contains only letters, digits, - and _")
    ELSE NoErr

\* The next four cases: reserved words, then the pattern of name and alias.
NameRuleError(cmd) ==
    IF cmd.Name = help \/ cmd.Name = version
    THEN ErrorString("command %q is reserved", "command " \o Quote(cmd.Name) \o " is reserved")
    ELSE IF cmd.Alias = help \/ cmd.Alias = version
    THEN ErrorString("command alias %q is reserved", "command alias " \o Quote(cmd.Alias) \o " is reserved")
    ELSE IF ~isStringValid(cmd.Name)
    THEN ErrorString("command %q must contains only letters, digits, - and _",
                     "command " \o Quote(cmd.Name) \o " must contains only letters, digits, - and _")
    ELSE IF cmd.Alias # EmptyStr /\ ~isStringValid(cmd.Alias)
    THEN ErrorString("command alias %q must contains only letters, digits, - and _",
                     "command alias " \o Quote(cmd.Alias) \o " must contains only letters, digits, - and _")
    ELSE NoErr

RECURSIVE validateCommand(_)
RECURSIVE validateRange(_, _, _)

\* validateSubcommands collecting the names only, not the aliases.
validateRangeNamesOnly(cmds, i, names) ==
    IF i > Len(cmds) THEN [err |-> NoErr, cmds |-> cmds]
    ELSE LET cmd == cmds[i] IN
        IF cmd.Name \in names
        THEN [err |-> ErrorString("duplicate command %q", "duplicate command " \o Quote(cmd.Name)),
              cmds |-> cmds]
        ELSE IF cmd.Alias \in names
        THEN [err |-> ErrorString("duplicate command alias %q", "duplicate command alias " \o Quote(cmd.Alias)),
              cmds |-> cmds]
        ELSE LET v == validateCommand(cmd)
                 left == [cmds EXCEPT ![i] = v.cmd]
             IN IF v.err # NoErr THEN [err |-> v.err, cmds |-> left]
                ELSE validateRange(left, i + 1, names \cup {cmd.Name})

\* The loop of validateSubcommands from index i on, names being the set
\* collected so far; cmds is the slice, already sorted.
validateRange(cmds, i, names) ==
    IF i > Len(cmds) THEN [err |-> NoErr, cmds |-> cmds]
    ELSE LET cmd == cmds[i] IN
        IF cmd.Name \in names
        THEN [err |-> ErrorString("duplicate command %q", "duplicate command " \o Quote(cmd.Name)),
              cmds |-> cmds]
        ELSE IF cmd.Alias \in names
        THEN [err |-> ErrorString("duplicate command alias %q", "duplicate command alias " \o Quote(cmd.Alias)),
              cmds |-> cmds]
        ELSE LET seen == names \cup {cmd.Name} \cup (IF cmd.Alias # EmptyStr THEN {cmd.Alias} ELSE {})
                 v == validateCommand(cmd)
                 left == [cmds EXCEPT ![i] = v.cmd]
             IN IF v.err # NoErr THEN [err |-> v.err, cmds |-> left]
                ELSE validateRange(left, i + 1, seen)

validateSubcommands(cmds) == validateRange(SortByName(cmds), 1, {})

\* validateCommand with the cases on names ahead of the cases on Do.
validateCommandNamesFirst(cmd) ==
    IF NameRuleError(cmd) # NoErr THEN [err |-> NameRuleError(cmd), cmd |-> cmd]
    ELSE IF HandlerRuleError(cmd) # NoErr THEN [err |-> HandlerRuleError(cmd), cmd |-> cmd]
    ELSE IF Len(cmd.Subcommands) # 0
    THEN LET v == validateSubcommands(cmd.Subcommands)
         IN [err |-> v.err, cmd |-> [cmd EXCEPT !.Subcommands = v.cmds]]
    ELSE [err |-> NoErr, cmd |-> cmd]

validateCommand(cmd) ==
    IF HandlerRuleError(cmd) # NoErr THEN [err |-> HandlerRuleError(cmd), cmd |-> cmd]
    ELSE IF NameRuleError(cmd) # NoErr THEN [err |-> NameRuleError(cmd), cmd |-> cmd]
    ELSE IF Len(cmd.Subcommands) # 0
    THEN LET v == validateSubcommands(cmd.Subcommands)
         IN [err |-> v.err, cmd |-> [cmd EXCEPT !.Subcommands = v.cmds]]
    ELSE [err |-> NoErr, cmd |-> cmd]

----------------------------------------------------------------------------
(* Suggestions: strDistance and suggestCommand (src/acmd.go:380-394).      *)

\* min3 looking at its first two arguments only.
min3OfTwo(a, b, c) == IF a < b THEN a ELSE b

min3(a, b, c) ==
    IF a < b /\ a < c THEN a
    ELSE IF b < c THEN b
    ELSE c

\* The inner loop of strDistance over j, for row i: x is the rolling row
\* (x[j + 1] here is Go's x[j]), prev the value to the left.  x is
\* make([]int, len(a)+1), so that Go's j <= len(a) is j < Len(x) here; the
\* test reads the row so that each turn is evaluated before the next one
\* starts, and no turn is left pending inside a later one.
RECURSIVE DistanceRow(_, _, _, _, _, _)
DistanceRow(a, b, i, j, x, prev) ==
    IF j >= Len(x) THEN [x EXCEPT ![Len(a) + 1] = prev]
    ELSE LET current == IF b[i] # a[j]
                        THEN min3(x[j] + 1, prev + 1, x[j + 1] + 1)
                        ELSE x[j]
         IN DistanceRow(a, b, i, j + 1, [x EXCEPT ![j] = prev], current)

RECURSIVE DistanceRows(_, _, _, _)

\* strDistance starting its first row with prev := 0 in place of prev := i.
DistanceRowsFromZero(a, b, i, x) ==
    IF i > Len(b) THEN x
    ELSE DistanceRows(a, b, i + 1, DistanceRow(a, b, i, 1, x, 0))

\* The outer loop of strDistance over i.
DistanceRows(a, b, i, x) ==
    IF i > Len(b) THEN x
    ELSE DistanceRows(a, b, i + 1, DistanceRow(a, b, i, 1, x, i))

strDistance(a0, b0) ==
    IF a0 = EmptyStr THEN Len(b0)
    ELSE IF b0 = EmptyStr THEN Len(a0)
    ELSE IF a0 = b0 THEN 0
    ELSE LET a == IF Len(a0) > Len(b0) THEN b0 ELSE a0
             b == IF Len(a0) > Len(b0) THEN a0 ELSE b0
             x == [k \in 1..(Len(a) + 1) |-> k - 1]
         IN DistanceRows(a, b, 1, x)[Len(a) + 1]

maxMatchDist == 2

RECURSIVE SuggestFrom(_, _, _, _, _)

\* suggestCommand keeping the last of the nearest candidates, not the first.
SuggestFromLastTie(got, cmds, i, minDist, match) ==
    IF i > Len(cmds) THEN match
    ELSE LET dist == strDistance(got, cmds[i].Name)
         IN IF dist <= minDist /\ dist <= maxMatchDist
            THEN SuggestFrom(got, cmds, i + 1, dist, cmds[i].Name)
            ELSE SuggestFrom(got, cmds, i + 1, minDist, match)

\* The loop of suggestCommand from index i on.
SuggestFrom(got, cmds, i, minDist, match) ==
    IF i > Len(cmds) THEN match
    ELSE LET dist == strDistance(got, cmds[i].Name)
         IN IF dist < minDist
            THEN SuggestFrom(got, cmds, i + 1, dist, cmds[i].Name)
            ELSE SuggestFrom(got, cmds, i + 1, minDist, match)

suggestCommand(got, cmds) == SuggestFrom(got, cmds, 1, maxMatchDist + 1, EmptyStr)

\* errNotFoundAndSuggest looking for its suggestion among the Runner's
\* top-level commands.
errNotFoundAndSuggestAtTop(appName, selected, cmds) ==
    LET suggestion == suggestCommand(selected, r.cmds)
        first == IF suggestion # EmptyStr
                 THEN Quote(selected) \o " unknown command, did you mean " \o Quote(suggestion) \o "?\n"
                 ELSE Quote(selected) \o " unknown command\n"
        second == "Run \"" \o Str(appName) \o " help\" for usage.\n\n"
    IN [out |-> <<first, second>>,
        err |-> ErrorString("no such command %q", "no such command " \o Quote(selected))]

\* errNotFoundAndSuggest, src/acmd.go:369-378: two writes and the error.
errNotFoundAndSuggest(appName, selected, cmds) ==
    LET suggestion == suggestCommand(selected, cmds)
        first == IF suggestion # EmptyStr
                 THEN Quote(selected) \o " unknown command, did you mean " \o Quote(suggestion) \o "?\n"
                 ELSE Quote(selected) \o " unknown command\n"
        second == "Run \"" \o Str(appName) \o " help\" for usage.\n\n"
    IN [out |-> <<first, second>>,
        err |-> ErrorString("no such command %q", "no such command " \o Quote(selected))]

----------------------------------------------------------------------------
(* Resolution: findCmd, src/acmd.go:341-367.  The result says which of the *)
(* three returns was taken, what was written on the way, the command list  *)
(* the loop was in at the end, and how many times the loop body ran.       *)

\* findCmd comparing the token with the aliases only.
MatchIndexAliasOnly(selected, cmds) ==
    LET hits == {i \in DOMAIN cmds : selected = cmds[i].Alias}
    IN IF hits = {} THEN 0 ELSE CHOOSE i \in hits : \A k \in hits : i <= k

\* findCmd taking an alias only for a command that has a handler.
MatchIndexLeafAlias(selected, cmds) ==
    LET hits == {i \in DOMAIN cmds :
                    selected = cmds[i].Name \/ (selected = cmds[i].Alias /\ cmds[i].Do # NilFunc)}
    IN IF hits = {} THEN 0 ELSE CHOOSE i \in hits : \A k \in hits : i <= k

\* The first command of cmds whose Name or Alias is selected (0: none).
MatchIndex(selected, cmds) ==
    LET hits == {i \in DOMAIN cmds : ~(selected # cmds[i].Name /\ selected # cmds[i].Alias)}
    IN IF hits = {} THEN 0 ELSE CHOOSE i \in hits : \A k \in hits : i <= k

RECURSIVE findLoop(_, _, _, _)

\* findCmd going on with the list it is in, not with the children of the
\* command it matched.
findLoopSameLevel(cfg, cmds, args, n) ==
    IF Len(args) = 0
    THEN [state |-> "panic", do |-> NilFunc, params |-> <<>>, err |-> NoErr,
          out |-> <<>>, cmds |-> cmds, selected |-> EmptyStr, iterations |-> n]
    ELSE LET selected == Head(args)
             params == Tail(args)
             k == MatchIndex(selected, cmds)
         IN IF k = 0
            THEN LET e == errNotFoundAndSuggest(cfg.AppName, selected, cmds)
                 IN [state |-> "failed", do |-> NilFunc, params |-> <<>>, err |-> e.err,
                     out |-> e.out, cmds |-> cmds, selected |-> selected, iterations |-> n + 1]
            ELSE IF cmds[k].Do = NilFunc
            THEN IF Len(params) = 0
                 THEN [state |-> "failed", do |-> NilFunc, params |-> <<>>,
                       err |-> ErrorString("no args for command provided", "no args for command provided"),
                       out |-> <<>>, cmds |-> cmds, selected |-> selected, iterations |-> n + 1]
                 ELSE findLoop(cfg, cmds, params, n + 1)
            ELSE [state |-> "resolved", do |-> cmds[k].Do, params |-> params, err |-> NoErr,
                  out |-> <<>>, cmds |-> cmds, selected |-> selected, iterations |-> n + 1]

\* findCmd going down into an interior command without looking whether a
\* token is left.
findLoopUnguarded(cfg, cmds, args, n) ==
    IF Len(args) = 0
    THEN [state |-> "panic", do |-> NilFunc, params |-> <<>>, err |-> NoErr,
          out |-> <<>>, cmds |-> cmds, selected |-> EmptyStr, iterations |-> n]
    ELSE LET selected == Head(args)
             params == Tail(args)
             k == MatchIndex(selected, cmds)
         IN IF k = 0
            THEN LET e == errNotFoundAndSuggest(cfg.AppName, selected, cmds)
                 IN [state |-> "failed", do |-> NilFunc, params |-> <<>>, err |-> e.err,
                     out |-> e.out, cmds |-> cmds, selected |-> selected, iterations |-> n + 1]
            ELSE IF cmds[k].Do = NilFunc
            THEN findLoop(cfg, cmds[k].Subcommands, params, n + 1)
            ELSE [state |-> "resolved", do |-> cmds[k].Do, params |-> params, err |-> NoErr,
                  out |-> <<>>, cmds |-> cmds, selected |-> selected, iterations |-> n + 1]

findLoop(cfg, cmds, args, n) ==
    IF Len(args) = 0
    THEN [state |-> "panic", do |-> NilFunc, params |-> <<>>, err |-> NoErr,
          out |-> <<>>, cmds |-> cmds, selected |-> EmptyStr, iterations |-> n]
    ELSE LET selected == Head(args)
             params == Tail(args)
             k == MatchIndex(selected, cmds)
         IN IF k = 0
            THEN LET e == errNotFoundAndSuggest(cfg.AppName, selected, cmds)
                 IN [state |-> "failed", do |-> NilFunc, params |-> <<>>, err |-> e.err,
                     out |-> e.out, cmds |-> cmds, selected |-> selected, iterations |-> n + 1]
            ELSE IF cmds[k].Do = NilFunc
            THEN IF Len(params) = 0
                 THEN [state |-> "failed", do |-> NilFunc, params |-> <<>>,
                       err |-> ErrorString("no args for command provided", "no args for command provided"),
                       out |-> <<>>, cmds |-> cmds, selected |-> selected, iterations |-> n + 1]
                 ELSE findLoop(cfg, cmds[k].Subcommands, params, n + 1)
            ELSE [state |-> "resolved", do |-> cmds[k].Do, params |-> params, err |-> NoErr,
                  out |-> <<>>, cmds |-> cmds, selected |-> selected, iterations |-> n + 1]

\* findCmd handing the handler the token that selected it as well.
findCmdKeepingToken(cfg, cmds, args) ==
    LET found == findLoop(cfg, cmds, args, 0)
    IN IF found.state = "resolved" THEN [found EXCEPT !.params = <<found.selected>> \o @] ELSE found

findCmd(cfg, cmds, args) == findLoop(cfg, cmds, args, 0)

----------------------------------------------------------------------------
(* Options: src/acmd.go:53-68, 215-255, 396-416.  A slice is nil or holds  *)
(* its elements; the context is the chain of values added to it.           *)

NilSlice == [nil |-> TRUE, elems |-> <<>>]
Slice(elems) == [nil |-> FALSE, elems |-> elems]

Option(name, short, dflt) == [Name |-> name, ShortName |-> short, DefaultValue |-> dflt]

\* bakeExclude(cmds)(name): name is the Name of one of cmds.
bakeExclude(cmds, name) == \E i \in DOMAIN cmds : cmds[i].Name = name

\* unwrap, src/acmd.go:414-416: one quote trimmed at the end, then at the start.
unwrap(value) ==
    LET q == <<"\"">>
        s == IF Len(value) >= 1 /\ value[Len(value)] = "\"" THEN SubSeq(value, 1, Len(value) - 1) ELSE value
    IN IF HasPrefix(s, q) THEN Tail(s) ELSE s

\* context.WithValue(ctx, optionKey(key), value)
WithValue(ctx, key, value) == [ctx EXCEPT !.values = Append(@, <<key, value>>)]

\* An Option's DefaultValue is a function value: nil, or a function that
\* returns a string.
NilDefault == [nil |-> TRUE, value |-> EmptyStr]
DefaultOf(value) == [nil |-> FALSE, value |-> value]

\* The first loop of ParseOptions: every option's default enters the context.
RECURSIVE WithDefaults(_, _, _)
WithDefaults(ctx, opts, i) ==
    IF i > Len(opts) THEN ctx
    ELSE WithDefaults(WithValue(ctx, opts[i].Name, opts[i].DefaultValue.value), opts, i + 1)

\* The first option that token names as --Name or -ShortName (0: none).
OptionIndex(token, opts) ==
    LET hits == {k \in DOMAIN opts :
                    \/ token = <<"-", "-">> \o opts[k].Name
                    \/ token = <<"-">> \o opts[k].ShortName}
    IN IF hits = {} THEN 0 ELSE CHOOSE k \in hits : \A m \in hits : k <= m

\* The second loop of ParseOptions at index i (1-based) of args.
RECURSIVE parseLoop(_, _, _, _, _)
parseLoop(args, i, ctx, opts, cmds) ==
    IF i > Len(args) THEN [state |-> "ok", err |-> NoErr, args |-> args, ctx |-> ctx]
    ELSE IF bakeExclude(cmds, args[i])
    THEN [state |-> "ok", err |-> NoErr, args |-> SubSeq(args, i, Len(args)), ctx |-> ctx]
    ELSE LET k == OptionIndex(args[i], opts)
             notFound == [state |-> "error", args |-> args, ctx |-> ctx,
                          err |-> ErrorString("option is not found: wrong option",
                                              "option is not found: wrong option")]
         IN IF k = 0 THEN notFound
            ELSE IF i + 1 > Len(args)
            THEN [state |-> "panic", err |-> NoErr, args |-> args, ctx |-> ctx]
            ELSE LET value == args[i + 1]
                 IN IF /\ ~bakeExclude(cmds, value)
                       /\ ~HasPrefix(value, <<"-", "-">>)
                       /\ ~HasPrefix(value, <<"-">>)
                    THEN parseLoop(args, i + 2, WithValue(ctx, opts[k].Name, unwrap(value)), opts, cmds)
                    ELSE notFound

\* ParseOptions(&args, &ctx, opts, bakeExclude(cmds)): args and ctx as they
\* are left (untouched unless the parse succeeds).
ParseOptions(args, ctx, opts, cmds) ==
    IF \E i \in DOMAIN opts : opts[i].DefaultValue.nil
    THEN [state |-> "panic", err |-> NoErr, args |-> args, ctx |-> ctx]
    ELSE LET p == parseLoop(args, 1, WithDefaults(ctx, opts, 1), opts, cmds)
         IN IF p.state = "ok" THEN p
            ELSE [p EXCEPT !.args = args, !.ctx = ctx]

----------------------------------------------------------------------------
(* The Runner: RunnerOf and Runner.init, src/acmd.go:109-122, 140-209.     *)

\* os.Args of the process
OsArgs == <<someapp, foo>>

NilContext == [from |-> "nil", values |-> <<>>]
SignalContext == [from |-> "signal.NotifyContext", values |-> <<>>]

BuiltinHelp == [Command(help, EmptyStr, HelpFunc, <<>>) EXCEPT !.Description = "shows help message"]
BuiltinVersion ==
    [Command(version, EmptyStr, VersionFunc, <<>>) EXCEPT !.Description = "shows version of the application"]

\* Runner.init on the Runner r0 that RunnerOf has filled: the Runner as init
\* leaves it and the error it returns (state "panic": init did not return).
init(r0) ==
    LET cfg1 == [r0.cfg EXCEPT
                    !.Output = IF @ = "nil" THEN "os.Stdout" ELSE @,
                    !.Usage = IF @ = "nil" THEN "defaultUsage" ELSE @]
        args0 == IF cfg1.Args.nil THEN OsArgs ELSE cfg1.Args.elems
        r1 == [r0 EXCEPT !.cfg = cfg1, !.args = args0]
    IN IF ~cfg1.Args.nil /\ Len(args0) = 0 THEN [state |-> "ok", err |-> ErrNoArgs, r |-> r1]
       ELSE
       LET cfg2 == [cfg1 EXCEPT !.AppName = IF @ = EmptyStr THEN args0[1] ELSE @]
           r2 == [r1 EXCEPT !.cfg = cfg2, !.args = Tail(args0)]
       IN IF Len(r2.args) = 0 THEN [state |-> "ok", err |-> ErrNoArgs, r |-> r2]
          ELSE
          LET r3 == [r2 EXCEPT !.ctx = IF cfg2.Context = NilContext THEN SignalContext ELSE cfg2.Context]
              p == IF r3.opts.nil
                   THEN [state |-> "ok", err |-> NoErr, args |-> r3.args, ctx |-> r3.ctx]
                   ELSE ParseOptions(r3.args, r3.ctx, r3.opts.elems, r3.cmds)
              r4 == [r3 EXCEPT !.args = p.args, !.ctx = p.ctx]
          IN IF p.state = "panic" THEN [state |-> "panic", err |-> NoErr, r |-> r4]
             ELSE IF p.err # NoErr THEN [state |-> "ok", err |-> p.err, r |-> r4]
             ELSE
             LET fakeRootCmd == Command(root, EmptyStr, NilFunc, r4.cmds)
                 v == validateCommand(fakeRootCmd)
                 r5 == [r4 EXCEPT !.cmds = v.cmd.Subcommands]
             IN IF v.err # NoErr THEN [state |-> "ok", err |-> v.err, r |-> r5]
                ELSE [state |-> "ok", err |-> NoErr,
                      r |-> [r5 EXCEPT !.cmds = SortByName(r5.cmds \o <<BuiltinHelp, BuiltinVersion>>)]]

NoRunner ==
    [cfg |-> [AppName |-> EmptyStr, AppDescription |-> EmptyStr, PostDescription |-> EmptyStr,
              Version |-> EmptyStr, Output |-> "nil", Context |-> NilContext,
              Args |-> NilSlice, Usage |-> "nil"],
     cmds |-> <<>>, opts |-> NilSlice, errInit |-> NoErr, ctx |-> NilContext, args |-> <<>>]

----------------------------------------------------------------------------
(* What the caller passes: the command trees of the tests (TestRunner,     *)
(* ExampleAlias) with up to MaxEdits of their commands rewritten, argument *)
(* vectors that walk those trees with one token replaced and up to         *)
(* MaxExtra tokens added, and the option lists.                            *)

MaxEdits == 1
MaxExtra == 1
MaxRuns == 1

f == <<"f">>
b == <<"b">>
badName == <<"f", "o", "o", "%">>
badAlias == <<"%">>

appCreate == <<"a", "p", "p", ":", "c", "r", "e", ".", "a", "t", "e">>
dashed == <<"a", "-", "b", "_", "9">>
dotted == <<"x", ".", "y">>

\* TestRunner, src/acmd_test.go:20-52
TestRunnerCmds ==
    << Command(test, EmptyStr, NilFunc,
         << Command(foo, EmptyStr, NilFunc,
              << Command(for, EmptyStr, UserFunc(<<1, 1, 1>>), <<>>) >>),
            Command(bar, EmptyStr, UserFunc(<<1, 2>>), <<>>) >>),
       Command(status, EmptyStr, UserFunc(<<2>>), <<>>) >>

\* ExampleAlias, src/example_test.go:140-157
AliasCmds ==
    << Command(foo, f, UserFunc(<<1>>), <<>>),
       Command(bar, b, UserFunc(<<2>>), <<>>) >>

\* The words a command is renamed to: the ones validation has no objection
\* to on their own, and the reserved and ill-formed ones.
PlainNames == {foo}
PlainAliases == {f, foo}
EditNames == PlainNames \cup {help, version, badName}
EditAliases == PlainAliases \cup {help, version, badAlias}

\* The places of the commands in the two trees, as index paths.
Paths == {<<1>>, <<1, 1>>, <<1, 1, 1>>, <<1, 2>>, <<2>>}

HasPath(cmds, path) ==
    /\ path[1] \in DOMAIN cmds
    /\ Len(path) > 1 => /\ path[2] \in DOMAIN cmds[path[1]].Subcommands
                        /\ Len(path) > 2 => path[3] \in DOMAIN cmds[path[1]].Subcommands[path[2]].Subcommands

\* The ways one command is rewritten: a new name or a new alias out of
\* names and aliases or neither and, when flips allows it, its handler
\* removed or added.
Rewritings(names, aliases, flips) ==
    {[field |-> fw[1], word |-> fw[2], flip |-> flip] :
        fw \in ({<<"Name", n>> : n \in names} \cup {<<"Alias", al>> : al \in aliases}
                \cup {<<"none", EmptyStr>>}),
        flip \in (IF flips THEN BOOLEAN ELSE {FALSE})}

Rewritten(c, path, how) ==
    [c EXCEPT !.Name = IF how.field = "Name" THEN how.word ELSE @,
              !.Alias = IF how.field = "Alias" THEN how.word ELSE @,
              !.Do = IF ~how.flip THEN @ ELSE IF @ = NilFunc THEN UserFunc(path) ELSE NilFunc]

\* cmds with the command at path rewritten, if there is one.
OneEdit(cmds, path, how) ==
    IF ~HasPath(cmds, path) THEN cmds
    ELSE IF Len(path) = 1
    THEN [cmds EXCEPT ![path[1]] = Rewritten(@, path, how)]
    ELSE IF Len(path) = 2
    THEN [cmds EXCEPT ![path[1]].Subcommands[path[2]] = Rewritten(@, path, how)]
    ELSE [cmds EXCEPT ![path[1]].Subcommands[path[2]].Subcommands[path[3]] = Rewritten(@, path, how)]

\* The trees with at most n commands rewritten.
RECURSIVE Edited(_, _, _, _, _)
Edited(trees, n, names, aliases, flips) ==
    IF n = 0 THEN trees
    ELSE Edited(trees \cup {OneEdit(t, path, how) :
                               t \in trees, path \in Paths, how \in Rewritings(names, aliases, flips)},
                n - 1, names, aliases, flips)

\* Every rewriting, and the rewritings that only rename.
CommandLists == Edited({TestRunnerCmds, AliasCmds}, MaxEdits, EditNames, EditAliases, TRUE)
RenamedLists == Edited({TestRunnerCmds, AliasCmds}, MaxEdits, PlainNames, PlainAliases, FALSE)

\* The one-command lists of TestRunnerInit's cases on names and aliases.
PatternNames == {EmptyStr, badName, appCreate, dashed, foo}
PatternAliases == {EmptyStr, badAlias, dotted, dashed, f}
PatternLists ==
    {<<Command(n, al, UserFunc(<<1>>), <<>>)>> : n \in PatternNames, al \in PatternAliases}

\* TestCommand_IsHidden, src/acmd_test.go:285-304
IsHiddenCmds ==
    << Command(for, EmptyStr, UserFunc(<<1>>), <<>>),
       [Command(foo, EmptyStr, UserFunc(<<2>>), <<>>) EXCEPT !.IsHidden = TRUE],
       Command(bar, EmptyStr, UserFunc(<<3>>), <<>>) >>

\* cmds with the command at path hidden, if there is one.
Hidden(cmds, path) ==
    IF ~HasPath(cmds, path) THEN cmds
    ELSE IF Len(path) = 1
    THEN [cmds EXCEPT ![path[1]].IsHidden = TRUE]
    ELSE IF Len(path) = 2
    THEN [cmds EXCEPT ![path[1]].Subcommands[path[2]].IsHidden = TRUE]
    ELSE [cmds EXCEPT ![path[1]].Subcommands[path[2]].Subcommands[path[3]].IsHidden = TRUE]

\* The trees with a hidden command: the tests' trees and some that
\* validation rejects.
HiddenLists ==
    {Hidden(t, path) :
        t \in {TestRunnerCmds, AliasCmds, IsHiddenCmds}
              \cup {OneEdit(TestRunnerCmds, <<2>>, [field |-> "Name", word |-> w, flip |-> flip]) :
                       w \in {help, badName, test}, flip \in BOOLEAN},
        path \in Paths}

\* The command lines of the tests: src/acmd_test.go:54, the examples.
Walks == {<<test, foo, for>>, <<test, bar>>, <<status>>, <<foo>>}
Tokens == {f, xyz, fooo, help, version, EmptyStr}
ExtraTokens == {bar}

\* The command lines tried on the trees with a hidden command.
HiddenArgVectors ==
    Walks \cup {<<help>>, <<version>>, <<f>>, <<bar>>, <<fooo>>, <<test, fooo>>, <<test>>}

RECURSIVE Extended(_, _)
Extended(vectors, n) ==
    IF n = 0 THEN vectors
    ELSE Extended(vectors \cup {Append(v, t) : v \in vectors, t \in ExtraTokens}, n - 1)

WalkPrefixes == UNION {{SubSeq(w, 1, n) : n \in 0..Len(w)} : w \in Walks}

\* A walk or a prefix of one, with at most one token replaced, then extended.
ArgVectors ==
    Extended(WalkPrefixes
             \cup UNION {{[p EXCEPT ![i] = t] : i \in DOMAIN p, t \in Tokens} : p \in WalkPrefixes},
             MaxExtra)

\* One option, as in the README's `test -H ":9000" run`, and the command
\* lines that use it well or badly.
dir == <<"d", "i", "r">>
d == <<"d">>
dot == <<".">>
a == <<"a">>
quotedA == <<"\"", "a", "\"">>
longDir == <<"-", "-">> \o dir
shortDir == <<"-">> \o d

OptionLists ==
    {Slice(<<>>), Slice(<<Option(dir, d, DefaultOf(dot))>>), Slice(<<Option(dir, d, NilDefault)>>)}

OptionArgVectors ==
    {o \o w :
        o \in {<<>>, <<longDir>>, <<longDir, a>>, <<shortDir, quotedA>>, <<longDir, shortDir>>,
               <<longDir, status>>, <<shortDir, a, longDir, a>>},
        w \in {<<>>, <<status>>, <<help>>, <<f>>, <<foo>>, <<test, foo, for>>, <<xyz>>}}

Config(appName, args, usage) ==
    [AppName |-> appName, AppDescription |-> EmptyStr, PostDescription |-> EmptyStr,
     Version |-> <<"0">>, Output |-> "buf", Context |-> NilContext,
     Args |-> args, Usage |-> usage]

\* What RunnerOf is called with: <<cmds, opts, cfg>>.
Inputs ==
    {<<cmds, NilSlice, Config(myapp, Slice(<<someapp>> \o v), "nil")>> :
        cmds \in RenamedLists, v \in ArgVectors}
    \cup {<<cmds, NilSlice, Config(myapp, Slice(<<someapp>> \o v), "nil")>> :
            cmds \in CommandLists, v \in Walks}
    \cup {<<cmds, opts, Config(app, Slice(<<someapp>> \o v), "nil")>> :
            cmds \in {TestRunnerCmds, AliasCmds}, opts \in OptionLists,
            app \in {EmptyStr, myapp}, v \in OptionArgVectors}
    \cup {<<cmds, opts, Config(app, args, usage)>> :
            cmds \in {TestRunnerCmds, <<>>}, opts \in {NilSlice, Slice(<<>>)},
            app \in {EmptyStr, myapp}, args \in {NilSlice, Slice(<<>>), Slice(<<someapp, help>>)},
            usage \in {"nil", "nopUsage"}}
    \cup {<<cmds, NilSlice, Config(myapp, Slice(<<someapp, foo>>), "nil")>> : cmds \in PatternLists}
    \cup {<<cmds, NilSlice, Config(myapp, Slice(<<someapp>> \o v), "nil")>> :
            cmds \in HiddenLists, v \in HiddenArgVectors}

\* What a handler of the caller may return, and what Exit may be given.
oops == ErrorString("oops", "oops")
HandlerResults == {NoErr, ErrCode(42), ErrCode(0), oops}
ExitErrors == HandlerResults \cup {WrapError("run: ", ErrCode(3))}

----------------------------------------------------------------------------
(* The operations *)

\* RunnerOf, src/acmd.go:110-122
RunnerOf(cmds, opts, cfg) ==
    /\ pc = "start"
    /\ IF Len(cmds) = 0
       THEN pc' = "panic" /\ r' = r
       ELSE LET i == init([NoRunner EXCEPT !.cmds = cmds, !.opts = opts, !.cfg = cfg])
            IN IF i.state = "panic"
               THEN pc' = "panic" /\ r' = r
               ELSE pc' = "built" /\ r' = [i.r EXCEPT !.errInit = i.err]
    /\ declared' = cmds
    /\ UNCHANGED <<out, calls, usageCalls, runs, ret, exits, fnArgs, fnResult>>

\* defaultUsage and printCommands, src/acmd.go:418-452: one element per
\* Fprintf; the table is the text handed to the tabwriter, not its padding.
RECURSIVE printCommands(_)
RECURSIVE printCommandsAll(_)

\* printCommands without its test of IsHidden.
printCommandsAll(cmds) ==
    IF Len(cmds) = 0 THEN <<"\n">>
    ELSE <<"    " \o Str(Head(cmds).Name) \o "\t"
           \o (IF Head(cmds).Description = "" THEN "<no description>" ELSE Head(cmds).Description)
           \o "\n">> \o printCommandsAll(Tail(cmds))

printCommands(cmds) ==
    IF Len(cmds) = 0 THEN <<"\n">>
    ELSE IF Head(cmds).IsHidden THEN printCommands(Tail(cmds))
    ELSE <<"    " \o Str(Head(cmds).Name) \o "\t"
           \o (IF Head(cmds).Description = "" THEN "<no description>" ELSE Head(cmds).Description)
           \o "\n">> \o printCommands(Tail(cmds))

defaultUsage(cfg, cmds) ==
    (IF cfg.AppDescription # EmptyStr THEN <<Str(cfg.AppDescription) \o "\n\n">> ELSE <<>>)
    \o <<"Usage:\n\n    " \o Str(cfg.AppName) \o " <command> [arguments...]\n\nThe commands are:\n\n">>
    \o printCommands(cmds)
    \o (IF cfg.PostDescription # EmptyStr THEN <<Str(cfg.PostDescription) \o "\n\n">> ELSE <<>>)
    \o (IF cfg.Version # EmptyStr THEN <<"Version: " \o Str(cfg.Version) \o "\n\n">> ELSE <<>>)

\* What calling the function value do does: its writes to the output, the
\* call of Config.Usage it makes, and the error it returns (result for a
\* handler of the caller).
Invoke(do, result) ==
    IF do.fn = "help"
    THEN [out |-> IF r.cfg.Usage = "defaultUsage" THEN defaultUsage(r.cfg, r.cmds) ELSE <<>>,
          usage |-> <<[fn |-> r.cfg.Usage, cfg |-> r.cfg, cmds |-> r.cmds, opts |-> r.opts]>>,
          err |-> NoErr]
    ELSE IF do.fn = "version"
    THEN [out |-> <<Str(r.cfg.AppName) \o " version: " \o Str(r.cfg.Version) \o "\n\n">>,
          usage |-> <<>>, err |-> NoErr]
    ELSE [out |-> <<>>, usage |-> <<>>, err |-> result]

\* The error Run returns for the error err of the handler it called.
RunResult(err) == IF err # NoErr THEN WrapError("got error: ", err) ELSE NoErr

\* Run dropping the token it has looked at from the Runner's arguments.
RunnerAfterRunShifted(runner) == [runner EXCEPT !.args = IF Len(@) > 0 THEN Tail(@) ELSE @]

\* The Runner as Run leaves it: Run reads r.errInit, r.cfg, r.cmds, r.args
\* and r.ctx and assigns none of them; findCmd works on its own copies of
\* the slices' headers.
RunnerAfterRun(runner) == runner

\* Runner.Run, src/acmd.go:327-339; result is what the caller's handler
\* returns if it is the one called, limit the number of calls followed.
RunUpTo(limit, result) ==
    /\ pc = "built"
    /\ runs < limit
    /\ runs' = runs + 1
    /\ r' = RunnerAfterRun(r)
    /\ UNCHANGED <<declared, exits, fnArgs, fnResult>>
    /\ IF r.errInit # NoErr
       THEN /\ ret' = WrapError("init error: ", r.errInit)
            /\ UNCHANGED <<pc, out, calls, usageCalls>>
       ELSE LET found == findCmd(r.cfg, r.cmds, r.args)
            IN IF found.state = "panic"
               THEN pc' = "panic" /\ UNCHANGED <<out, calls, usageCalls, ret>>
               ELSE IF found.err # NoErr
               THEN /\ ret' = found.err
                    /\ out' = out \o found.out
                    /\ UNCHANGED <<pc, calls, usageCalls>>
               ELSE LET done == Invoke(found.do, result)
                    IN /\ calls' = Append(calls, [do |-> found.do, ctx |-> r.ctx, args |-> found.params,
                                               result |-> done.err])
                       /\ out' = out \o done.out
                       /\ usageCalls' = usageCalls \o done.usage
                       /\ ret' = RunResult(done.err)
                       /\ pc' = pc

Run(result) == RunUpTo(MaxRuns, result)

\* Exit without its errors.As: every error gives 1.
ExitStatusNoAs(err) == IF err = NoErr THEN 0 ELSE 1

\* Exit turning the code 0 of an error into 1.
ExitStatusNeverZero(err) ==
    IF err = NoErr THEN 0 ELSE IF AsErrCode(err, 1) = 0 THEN 1 ELSE AsErrCode(err, 1)

\* The status Exit passes to doExit.
ExitStatus(err) == IF err = NoErr THEN 0 ELSE AsErrCode(err, 1)

\* What Exit writes before it calls doExit.
ExitOutput(err) ==
    IF err = NoErr THEN <<>>
    ELSE <<Str(r.cfg.AppName) \o ": " \o ErrorText(err) \o "\n">>

\* Runner.Exit, src/acmd.go:128-138
Exit(err) ==
    /\ pc = "built"
    /\ out' = out \o ExitOutput(err)
    /\ exits' = Append(exits, [status |-> ExitStatus(err), after |-> Len(out')])
    /\ ret' = err
    /\ pc' = "exited"
    /\ UNCHANGED <<declared, r, calls, usageCalls, runs, fnArgs, fnResult>>

\* r.Exit(r.Run()), as the README's main does.
ExitWithRunError == runs > 0 /\ Exit(ret)

\* r.Exit(err) on its own, on a Runner made without Config.Args, as
\* TestRunnerJustExit does.
JustExit == runs = 0 /\ r.cfg.Args.nil /\ \E err \in ExitErrors : Exit(err)

Init ==
    /\ pc = "start"
    /\ declared = <<>>
    /\ r = NoRunner
    /\ out = <<>>
    /\ calls = <<>>
    /\ usageCalls = <<>>
    /\ runs = 0
    /\ ret = NoErr
    /\ exits = <<>>
    /\ fnArgs = <<>>
    /\ fnResult = <<>>

Next ==
    \/ pc = "start" /\ \E input \in Inputs : RunnerOf(input[1], input[2], input[3])
    \/ pc = "built" /\ \E result \in HandlerResults : Run(result)
    \/ ExitWithRunError
    \/ JustExit

Spec == Init /\ [][Next]_vars

----------------------------------------------------------------------------
(* Run called again and again on one Runner: the trees of the tests, with  *)
(* and without a hidden command or a rule broken, the construction         *)
(* defaults, and up to MaxRepeats calls of Run.                            *)

MaxRepeats == 2

RepeatInputs ==
    {<<cmds, NilSlice, Config(myapp, Slice(<<someapp>> \o v), "nil")>> :
        cmds \in HiddenLists, v \in HiddenArgVectors \cup {<<status, xyz>>, <<f, bar, foo>>}}
    \cup {<<cmds, opts, Config(app, args, usage)>> :
            cmds \in {TestRunnerCmds, <<>>}, opts \in {NilSlice, Slice(<<>>)},
            app \in {EmptyStr, myapp}, args \in {NilSlice, Slice(<<>>), Slice(<<someapp, help>>)},
            usage \in {"nil", "nopUsage"}}

RepeatNext ==
    \/ pc = "start" /\ \E input \in RepeatInputs : RunnerOf(input[1], input[2], input[3])
    \/ pc = "built" /\ \E result \in HandlerResults : RunUpTo(MaxRepeats, result)

RepeatSpec == Init /\ [][RepeatNext]_vars

-----------------------------------------------------------------------------
(* suggestCommand on its own: one call on a target and a list of           *)
(* candidates.                                                             *)

MaxLen == 2
MaxCands == 2

\* Two letters that differ in case only.
Alphabet == {"a", "A"}
RECURSIVE Words(_)
Words(n) ==
    IF n = 0 THEN {<<>>}
    ELSE Words(n - 1) \cup {Append(w, c) : w \in Words(n - 1), c \in Alphabet}

hell == <<"h", "e", "l", "l">>
verZion == <<"v", "e", "r", "Z", "i", "o", "n">>
verZION == <<"v", "e", "r", "Z", "I", "O", "N">>

\* The calls that TestRunner_suggestCommand leads to (src/acmd_test.go:224-247):
\* the commands of each case, with help and version where init has added them.
TestSuggestions ==
    LET one == <<Command(for, EmptyStr, UserFunc(<<1>>), <<>>), BuiltinHelp, BuiltinVersion>>
    IN {[got |-> fooo, cmds |-> <<Command(for, EmptyStr, UserFunc(<<1>>), <<>>),
                                  Command(foo, EmptyStr, UserFunc(<<2>>), <<>>),
                                  Command(bar, EmptyStr, UserFunc(<<3>>), <<>>)>>]}
       \cup {[got |-> got, cmds |-> one] : got \in {hell, verZION, verZion}}

\* The targets: the words of MaxLen and of MaxLen + 1 letters, the first
\* letter fixed (exchanging the two letters everywhere changes no distance).
Targets == {w \in Words(MaxLen + 1) : Len(w) >= MaxLen /\ w[1] = "a"}

\* The lists of at most k words of at most MaxLen letters.
RECURSIVE NameLists(_)
NameLists(k) ==
    IF k = 0 THEN {<<>>}
    ELSE NameLists(k - 1) \cup {Append(l, w) : l \in NameLists(k - 1), w \in Words(MaxLen)}

\* Every target against every list of at most MaxCands candidates named by
\* words of at most MaxLen letters; each candidate has the target itself
\* as its alias.
BoundedSuggestions ==
    {[got |-> got,
      cmds |-> [i \in 1..Len(names) |-> Command(names[i], got, UserFunc(<<i>>), <<>>)]] :
        names \in NameLists(MaxCands), got \in Targets}

SuggestInit ==
    /\ pc = "call"
    /\ fnArgs \in TestSuggestions \cup BoundedSuggestions
    /\ fnResult = <<>>
    /\ declared = <<>>
    /\ r = NoRunner
    /\ out = <<>>
    /\ calls = <<>>
    /\ usageCalls = <<>>
    /\ runs = 0
    /\ ret = NoErr
    /\ exits = <<>>

CallSuggestCommand ==
    /\ pc = "call"
    /\ fnResult' = suggestCommand(fnArgs.got, fnArgs.cmds)
    /\ pc' = "returned"
    /\ UNCHANGED <<declared, r, out, calls, usageCalls, runs, ret, exits, fnArgs>>

SuggestNext == CallSuggestCommand

SuggestSpec == SuggestInit /\ [][SuggestNext]_vars

-----------------------------------------------------------------------------
(* strDistance on its own: the distances between three strings, each pair  *)
(* in the order and in the reverse order that a caller may pass them.      *)

kitten == <<"k", "i", "t", "t", "e", "n">>
sitting == <<"s", "i", "t", "t", "i", "n", "g">>

\* The pairs of Test_strDistance, src/unnamed/part_006:9-20.
TestDistances ==
    {<<<<>>, <<>>>>,
       <<<<"a">>, <<"a">>>>,
       <<<<>>, <<"h", "e", "l", "l", "o">>>>,
       <<<<"h", "e", "l", "l", "o">>, <<>>>>,
       <<<<"h", "e", "l", "l", "o">>, <<"h", "e", "l", "l", "o">>>>,
       <<<<"a", "b">>, <<"a", "a">>>>,
       <<<<"a", "b">>, <<"b", "a">>>>,
       <<<<"a", "b">>, <<"a", "a", "a">>>>,
       <<<<"b", "b", "b">>, <<"a">>>>,
       <<<<"k", "i", "t", "t", "e", "n">>, <<"s", "i", "t", "t", "i", "n", "g">>>>,
       <<<<"d", "i", "s", "t", "a", "n", "c", "e">>, <<"d", "i", "f", "f", "e", "r", "e", "n", "c", "e">>>>,
       <<<<"r", "e", "s", "u", "m", "e", " ", "a", "n", "d", " ", "c", "a", "f", "e">>, <<"r", "e", "s", "u", "m", "e", "s", " ", "a", "n", "d", " ", "c", "a", "f", "e", "s">>>>}

\* The pairs of the test with the empty string as the third operand, and
\* every three words of at most MaxLen + 1 letters.
DistanceInputs ==
    {[a |-> p[1], b |-> p[2], c |-> EmptyStr] : p \in TestDistances}
    \cup {[a |-> x, b |-> y, c |-> z] :
            x \in Words(MaxLen + 1), y \in Words(MaxLen + 1), z \in Words(MaxLen + 1)}

DistanceInit ==
    /\ pc = "call"
    /\ fnArgs \in DistanceInputs
    /\ fnResult = <<>>
    /\ declared = <<>>
    /\ r = NoRunner
    /\ out = <<>>
    /\ calls = <<>>
    /\ usageCalls = <<>>
    /\ runs = 0
    /\ ret = NoErr
    /\ exits = <<>>

CallStrDistance ==
    /\ pc = "call"
    /\ fnResult' = [ab |-> strDistance(fnArgs.a, fnArgs.b),
                    ba |-> strDistance(fnArgs.b, fnArgs.a),
                    bc |-> strDistance(fnArgs.b, fnArgs.c),
                    ac |-> strDistance(fnArgs.a, fnArgs.c)]
    /\ pc' = "returned"
    /\ UNCHANGED <<declared, r, out, calls, usageCalls, runs, ret, exits, fnArgs>>

DistanceNext == CallStrDistance

DistanceSpec == DistanceInit /\ [][DistanceNext]_vars

----------------------------------------------------------------------------
(* The claims *)

Last(s) == s[Len(s)]

\* The caller has a Runner and has not exited: Run's effects can be read.
Running == pc = "built" /\ runs > 0

C2_HandlerErrorUnchanged ==
    (Running /\ calls # <<>> /\ Last(calls).result # NoErr)
    => ret = Last(calls).result /\ ErrorText(ret) = ErrorText(Last(calls).result)

\* C3: Exit, given what Run returned: after a handler returned ErrCode(42)
\* the status is 42 and the one line written is "<appName>: code 42"; after
\* a handler returned nil the status is 0 and nothing is written.
C3_ExitAfterRun ==
    (pc = "exited" /\ runs > 0 /\ calls # <<>> /\ Last(calls).do.fn = "user")
    => /\ Last(calls).result = ErrCode(42)
          => Last(exits).status = 42 /\ out = <<Str(r.cfg.AppName) \o ": code 42\n">>
       /\ Last(calls).result = NoErr
          => Last(exits).status = 0 /\ out = <<>>

\* The status the documentation of Exit gives for err: 0 for nil, n when
\* ErrCode(n) is err or is wrapped in it, 1 otherwise.
DocumentedStatus(err) ==
    IF err = NoErr THEN 0
    ELSE IF \E i \in DOMAIN err : err[i].type = "ErrCode"
    THEN err[CHOOSE i \in DOMAIN err : err[i].type = "ErrCode" /\ \A k \in 1..(i - 1) : err[k].type # "ErrCode"].code
    ELSE 1

\* C4: every call of Exit calls doExit once, with 0 for nil, n for an error
\* that is or wraps ErrCode(n) and 1 for any other error, and for a non-nil
\* error after it has written "<appName>: <message>" (and nothing for nil).
C4_ExitMapping ==
    [][(pc = "built" /\ pc' = "exited")
       => /\ Len(exits') = Len(exits) + 1
          /\ Last(exits').status = DocumentedStatus(ret')
          /\ out' = out \o (IF ret' = NoErr THEN <<>>
                            ELSE <<Str(r.cfg.AppName) \o ": " \o ErrorText(ret') \o "\n">>)
          /\ Last(exits').after = Len(out')]_vars

C4_Witness ==
    /\ pc = "exited"
    /\ ret = WrapError("run: ", ErrCode(3))
    /\ Last(exits).status = 3
    /\ Last(out) = Str(r.cfg.AppName) \o ": run: code 3\n"

\* Validation was reached and passed: the Runner resolves commands.
Valid == pc = "built" /\ r.errInit = NoErr

\* The token names the command: it is its name or its alias.
Names(token, c) == token = c.Name \/ token = c.Alias

\* The commands that the tokens of args name one after the other, each
\* among the children of the one before, down to the first leaf or the
\* first token that names nothing.
RECURSIVE Chain(_, _)
Chain(cmds, args) ==
    IF args = <<>> \/ ~\E i \in DOMAIN cmds : Names(Head(args), cmds[i]) THEN <<>>
    ELSE LET c == cmds[CHOOSE i \in DOMAIN cmds :
                          /\ Names(Head(args), cmds[i])
                          /\ \A k \in 1..(i - 1) : ~Names(Head(args), cmds[k])]
         IN <<c>> \o Chain(c.Subcommands, Tail(args))

\* Two resolutions with the same outcome: the same handler with the same
\* residual arguments, or both failed.
SameResolution(x, y) == x.state = y.state /\ x.do = y.do /\ x.params = y.params

\* C5: in a validated tree, for the command that the i-th token names, if it
\* has an alias, the arguments with its name at i and the arguments with its
\* alias at i resolve to the same handler with the same residual arguments.
C5_AliasEquivalence ==
    Valid =>
        \A i \in DOMAIN Chain(r.cmds, r.args) :
            LET c == Chain(r.cmds, r.args)[i]
            IN c.Alias # EmptyStr
               => SameResolution(findCmd(r.cfg, r.cmds, [r.args EXCEPT ![i] = c.Name]),
                                 findCmd(r.cfg, r.cmds, [r.args EXCEPT ![i] = c.Alias]))

\* An interior command at depth 2 was called by its alias, and the handler
\* below it ran with residual arguments.
C5_Witness ==
    /\ Valid /\ runs > 0 /\ calls # <<>> /\ Last(calls).args # <<>>
    /\ Len(Chain(r.cmds, r.args)) >= 3
    /\ LET c == Chain(r.cmds, r.args)[2]
       IN c.Alias # EmptyStr /\ c.Alias # c.Name /\ r.args[2] = c.Alias /\ c.Do = NilFunc

\* The classic Levenshtein distance, by its table: the entry of row i and
\* column j is the distance of the first i characters of s and the first j
\* of t, the least of the entry above plus 1 (a deletion), the entry to the
\* left plus 1 (an insertion) and the entry above to the left plus 1 if the
\* two characters differ (a substitution).  FillRow extends row i, which
\* holds the entries of columns 0 to Len(row) - 1, to the full row.
RECURSIVE FillRow(_, _, _, _, _)
FillRow(s, t, i, above, row) ==
    IF Len(row) > Len(t) THEN row
    ELSE LET j == Len(row)
             del == above[j + 1] + 1
             ins == row[j] + 1
             sub == above[j] + (IF s[i] = t[j] THEN 0 ELSE 1)
             least == IF del <= ins /\ del <= sub THEN del
                      ELSE IF ins <= sub THEN ins ELSE sub
         IN FillRow(s, t, i, above, Append(row, least))

\* The last row of the table, above being a row already filled: its number
\* is its entry of column 0, and the last row is row Len(s).
RECURSIVE LastRow(_, _, _)
LastRow(s, t, above) ==
    IF above[1] >= Len(s) THEN above
    ELSE LET i == above[1] + 1
         IN LastRow(s, t, FillRow(s, t, i, above, <<i>>))

EditDistance(s, t) == LastRow(s, t, [j \in 1..(Len(t) + 1) |-> j - 1])[Len(t) + 1]

\* The candidates of the call at the least distance from its target.
Nearest ==
    {i \in DOMAIN fnArgs.cmds :
        \A k \in DOMAIN fnArgs.cmds :
            EditDistance(fnArgs.got, fnArgs.cmds[i].Name) <= EditDistance(fnArgs.got, fnArgs.cmds[k].Name)}

\* C6: suggestCommand returns the name of the first candidate, in list
\* order, among those whose name is at the least edit distance from the
\* target, when that distance is at most 2, and the empty string when
\* there is no candidate or every name is further than 2; letters differing
\* in case are different, and aliases play no part.
C6_SuggestNearest ==
    pc = "returned" =>
        IF \E i \in Nearest : EditDistance(fnArgs.got, fnArgs.cmds[i].Name) <= 2
        THEN \E i \in Nearest :
                /\ \A k \in Nearest : i <= k
                /\ fnResult = fnArgs.cmds[i].Name
        ELSE fnResult = EmptyStr

\* Two candidates of different names are both at distance 2, the least,
\* the target is the alias of both, and the first one's name came back.
C6_Witness ==
    /\ pc = "returned"
    /\ Nearest = {1, 2}
    /\ fnArgs.cmds[1].Name # fnArgs.cmds[2].Name
    /\ fnArgs.cmds[1].Alias = fnArgs.got
    /\ EditDistance(fnArgs.got, fnArgs.cmds[1].Name) = 2
    /\ fnResult = fnArgs.cmds[1].Name

\* Where a resolution of args in cmds ends: the command list in which the
\* last token looked at is looked up, that token, and the depth of the list.
RECURSIVE LastLevel(_, _, _)
LastLevel(cmds, args, depth) ==
    LET chain == Chain(cmds, <<Head(args)>>)
    IN IF chain = <<>> \/ Len(args) = 1 \/ chain[1].Subcommands = <<>>
       THEN [cmds |-> cmds, token |-> Head(args), depth |-> depth]
       ELSE LastLevel(chain[1].Subcommands, Tail(args), depth + 1)

\* The resolution of the Runner's arguments misses below the top level.
NestedMiss ==
    /\ Valid
    /\ LET at == LastLevel(r.cmds, r.args, 0)
       IN at.depth > 0 /\ \A i \in DOMAIN at.cmds : ~Names(at.token, at.cmds[i])

\* C7: when the token of a nested level names no child of the command
\* reached, every Run returns `no such command "<token>"`, calls no handler,
\* and writes a suggestion exactly when a child's name is within distance 2
\* of the token, the suggestion being then the name of such a child.
C7_NestedMiss ==
    (NestedMiss /\ runs > 0) =>
        LET at == LastLevel(r.cmds, r.args, 0)
            near == {i \in DOMAIN at.cmds : EditDistance(at.token, at.cmds[i].Name) <= 2}
        IN /\ ret = ErrorString("no such command %q", "no such command " \o Quote(at.token))
           /\ calls = <<>>
           /\ Len(out) = 2 * runs
           /\ \A k \in 1..runs :
                /\ out[2 * k] = "Run \"" \o Str(r.cfg.AppName) \o " help\" for usage.\n\n"
                /\ IF near = {}
                   THEN out[2 * k - 1] = Quote(at.token) \o " unknown command\n"
                   ELSE \E i \in near :
                          out[2 * k - 1] = Quote(at.token) \o " unknown command, did you mean "
                                           \o Quote(at.cmds[i].Name) \o "?\n"

\* The miss is two levels down, a child is suggested, and a top-level
\* command is nearer to the token than that child.
C7_Witness ==
    /\ NestedMiss /\ runs > 0
    /\ LET at == LastLevel(r.cmds, r.args, 0)
       IN /\ at.depth = 2
          /\ \E i \in DOMAIN at.cmds :
                /\ out[1] = Quote(at.token) \o " unknown command, did you mean " \o Quote(at.cmds[i].Name) \o "?\n"
                /\ \E k \in DOMAIN r.cmds :
                      EditDistance(at.token, r.cmds[k].Name) < EditDistance(at.token, at.cmds[i].Name)

\* Every command of a tree, and every list of siblings in it.
RECURSIVE AllCommands(_)
AllCommands(cmds) ==
    UNION {{cmds[i]} \cup AllCommands(cmds[i].Subcommands) : i \in DOMAIN cmds}

SiblingLists(cmds) == {cmds} \cup {c.Subcommands : c \in AllCommands(cmds)}

\* Two siblings share a name, or share an alias, or the name of one is the
\* alias of the other.
Collides(list) ==
    \E i, j \in DOMAIN list :
        /\ i # j
        /\ \/ list[i].Name = list[j].Name
           \/ list[i].Alias # EmptyStr /\ list[i].Alias = list[j].Alias
           \/ list[i].Name = list[j].Alias

\* init came as far as validateCommand.
ValidationRan ==
    /\ pc = "built"
    /\ r.errInit # ErrNoArgs
    /\ r.errInit # ErrorString("option is not found: wrong option", "option is not found: wrong option")

IsDuplicateError(err) ==
    /\ Len(err) = 1
    /\ err[1].format \in {"duplicate command %q", "duplicate command alias %q"}

Reserved(word) == word = help \/ word = version

\* C9: a tree with a command named or aliased help or version, at any
\* depth, fails validation: the Runner keeps an error, every Run returns it
\* as an init error, and no handler is called.
C9_ReservedWords ==
    (pc \in {"built", "exited"} /\ \E c \in AllCommands(declared) : Reserved(c.Name) \/ Reserved(c.Alias))
    => /\ r.errInit # NoErr
       /\ calls = <<>>
       /\ usageCalls = <<>>
       /\ (Running => ret = WrapError("init error: ", r.errInit))

\* The reserved word is an alias, three levels down.
C9_Witness ==
    /\ Running
    /\ Len(declared) > 0 /\ Len(declared[1].Subcommands) > 0
    /\ Len(declared[1].Subcommands[1].Subcommands) > 0
    /\ declared[1].Subcommands[1].Subcommands[1].Alias = version
    /\ ErrorText(ret) = "init error: command alias \"version\" is reserved"

\* The command has a handler or children, and not both.
HandlerXorChildren(c) == (c.Do # NilFunc) # (Len(c.Subcommands) # 0)

\* C10: a tree passes validation only if every command, at any depth, has
\* exactly one of a handler and children: with both, or with neither,
\* validation fails.
C10_HandlerXorChildren ==
    (ValidationRan /\ \E c \in AllCommands(declared) : ~HandlerXorChildren(c))
    => r.errInit # NoErr

\* A nested command with children was given a handler as well.
C10_Witness ==
    /\ ValidationRan
    /\ \E c \in AllCommands(declared) :
          \E i \in DOMAIN c.Subcommands :
              c.Subcommands[i].Do # NilFunc /\ c.Subcommands[i].Subcommands # <<>>
    /\ Len(r.errInit) = 1
    /\ r.errInit[1].format = "command %q function cannot be set and have subcommands"

\* A string of the pattern ^[A-Za-z0-9_:.-]+$.
MatchesPattern(s) ==
    /\ Len(s) > 0
    /\ \A i \in DOMAIN s :
          \/ Ascii["A"] <= Ascii[s[i]] /\ Ascii[s[i]] <= Ascii["Z"]
          \/ Ascii["a"] <= Ascii[s[i]] /\ Ascii[s[i]] <= Ascii["z"]
          \/ Ascii["0"] <= Ascii[s[i]] /\ Ascii[s[i]] <= Ascii["9"]
          \/ s[i] \in {"_", ":", ".", "-"}

\* No command of the tree breaks a rule other than the pattern of names.
OtherRulesKept(cmds) ==
    /\ \A c \in AllCommands(cmds) : HandlerXorChildren(c) /\ ~Reserved(c.Name) /\ ~Reserved(c.Alias)
    /\ \A list \in SiblingLists(cmds) : ~Collides(list)

\* C11: a tree that breaks no other rule passes validation if and only if
\* every name in it is of the pattern ^[A-Za-z0-9_:.-]+$ and every alias is
\* empty or of that pattern.
C11_NamePattern ==
    (ValidationRan /\ OtherRulesKept(declared))
    => (r.errInit = NoErr
        <=> \A c \in AllCommands(declared) :
               MatchesPattern(c.Name) /\ (c.Alias = EmptyStr \/ MatchesPattern(c.Alias)))

\* C12: for a non-empty command list, whatever the options and the
\* arguments, neither RunnerOf nor Run aborts: the only abort is RunnerOf
\* with no commands.
C12_NoAbort == pc = "panic" => Len(declared) = 0

\* C13: RunnerOf aborts when it is given no commands, and with a non-empty
\* list it always returns a Runner.
C13_AbortIffNoCommands == pc # "start" => (pc = "panic" <=> Len(declared) = 0)

\* The first half of C13 alone: RunnerOf with no commands aborts.
NoCommandsAbort == (pc # "start" /\ Len(declared) = 0) => pc = "panic"

\* The Runner was given arguments that hold the program name only.
NoCommandToken ==
    /\ pc \in {"built", "exited"}
    /\ ~r.cfg.Args.nil
    /\ Len(r.cfg.Args.elems) = 1

C16_Levenshtein ==
    pc = "returned" =>
        /\ fnResult.ab = EditDistance(fnArgs.a, fnArgs.b)
        /\ fnResult.ba = EditDistance(fnArgs.b, fnArgs.a)
        /\ fnArgs.a = fnArgs.b => fnResult.ab = 0
        /\ fnArgs.a = EmptyStr => fnResult.ab = Len(fnArgs.b)
        /\ fnArgs.b = EmptyStr => fnResult.ab = Len(fnArgs.a)

\* The distance of kitten and sitting came back as 3.
C16_Witness ==
    /\ pc = "returned"
    /\ fnArgs.a = kitten /\ fnArgs.b = sitting
    /\ fnResult.ab = 3

\* C17: strDistance gives the same for a, b and for b, a, and the distance
\* of a and c is at most that of a and b plus that of b and c.
C17_SymmetryAndTriangle ==
    pc = "returned" =>
        /\ fnResult.ab = fnResult.ba
        /\ fnResult.ac <= fnResult.ab + fnResult.bc

\* Operands of equal length and not equal, a longer third one, and the
\* triangle inequality with equality.
C17_Witness ==
    /\ pc = "returned"
    /\ Len(fnArgs.a) = Len(fnArgs.b) /\ fnArgs.a # fnArgs.b
    /\ Len(fnArgs.c) > Len(fnArgs.a)
    /\ fnResult.ab = fnResult.ba /\ fnResult.ab > 0
    /\ fnResult.ac = fnResult.ab + fnResult.bc

\* The tree passes validateCommand under the root that init gives it.
ValidTree(cmds) == validateCommand(Command(root, EmptyStr, NilFunc, cmds)).err = NoErr

\* Run was called on a Runner made from a valid tree and from arguments
\* whose first token after the program name is token.
RanWithToken(token) ==
    /\ Running
    /\ ValidTree(declared)
    /\ ~r.cfg.Args.nil /\ Len(r.cfg.Args.elems) >= 2 /\ r.cfg.Args.elems[2] = token

\* The list holds the commands of the tree and the two builtins, by name.
FullySortedList(cmds) ==
    /\ Len(cmds) = Len(declared) + 2
    /\ \A i \in DOMAIN declared : \E k \in DOMAIN cmds : cmds[k].Name = declared[i].Name
    /\ \E k \in DOMAIN cmds : cmds[k] = BuiltinHelp
    /\ \E k \in DOMAIN cmds : cmds[k] = BuiltinVersion
    /\ \A k \in 1..(Len(cmds) - 1) : StrLess(cmds[k].Name, cmds[k + 1].Name)

\* What C18 says of such a Runner.
HelpAndVersionRun ==
    /\ RanWithToken(help) =>
          /\ ret = NoErr
          /\ Len(usageCalls) = runs
          /\ \A k \in DOMAIN usageCalls : FullySortedList(usageCalls[k].cmds)
          /\ Len(calls) = runs /\ \A k \in DOMAIN calls : calls[k].do = HelpFunc
    /\ RanWithToken(version) =>
          /\ ret = NoErr
          /\ usageCalls = <<>>
          /\ Len(calls) = runs /\ \A k \in DOMAIN calls : calls[k].do = VersionFunc

\* C18: for a valid tree, arguments whose command token is help make each
\* Run invoke the usage renderer once, with the user's commands and the
\* builtins help and version sorted by name, and return nil; the token
\* version calls the builtin version handler.
C18_HelpInvokesUsage == HelpAndVersionRun

\* The same for the Runners made with a nil options list.
HelpWithoutOptions == r.opts.nil => HelpAndVersionRun

\* cmds with no command hidden, at any depth.
RECURSIVE Unhidden(_)
Unhidden(cmds) ==
    IF Len(cmds) = 0 THEN <<>>
    ELSE [i \in DOMAIN cmds |-> [cmds[i] EXCEPT !.IsHidden = FALSE, !.Subcommands = Unhidden(@)]]

\* lines written over and over, count times.
RECURSIVE Repeated(_, _)
Repeated(lines, count) == IF count = 0 THEN <<>> ELSE lines \o Repeated(lines, count - 1)

\* The Runner, had it been made from the same tree with nothing hidden.
PlainRunner == init([NoRunner EXCEPT !.cmds = Unhidden(declared), !.opts = r.opts, !.cfg = r.cfg])

\* Validation, sorting and the builtins do not look at the hidden flag.
SameConstruction ==
    /\ PlainRunner.state # "panic"
    /\ PlainRunner.err = r.errInit
    /\ PlainRunner.r.cmds = Unhidden(r.cmds)
    /\ PlainRunner.r.args = r.args

\* Resolution and suggestion do not look at it either.
SameDispatch ==
    r.errInit = NoErr =>
        LET here == findCmd(r.cfg, r.cmds, r.args)
            there == findCmd(r.cfg, Unhidden(r.cmds), r.args)
        IN /\ here.state = there.state /\ here.do = there.do /\ here.params = there.params
           /\ here.err = there.err /\ here.out = there.out
           /\ Unhidden(here.cmds) = there.cmds

\* The default usage renderer lists the commands that are not hidden, and
\* only those.
ListingOmitsHidden ==
    (r.cfg.Usage = "defaultUsage" /\ usageCalls # <<>>) =>
        out = Repeated(defaultUsage(r.cfg, Unhidden(SelectSeq(r.cmds, LAMBDA c : ~c.IsHidden))), runs)

\* C19: a hidden command is left out of the table that the default usage
\* renderer prints, while validation, resolution by name or alias, dispatch
\* and suggestion are what they are for the same tree with nothing hidden.
C19_HiddenOnlyInListings ==
    (pc = "built" /\ \E c \in AllCommands(declared) : c.IsHidden) =>
        SameConstruction /\ SameDispatch /\ ListingOmitsHidden

\* The usage was printed for a list with a hidden command in it.
C19_Witness ==
    /\ pc = "built" /\ r.cfg.Usage = "defaultUsage" /\ usageCalls # <<>> /\ out # <<>>
    /\ \E k \in DOMAIN r.cmds : r.cmds[k].IsHidden

\* A hidden command was called by its name.
HiddenCalled ==
    /\ pc = "built" /\ calls # <<>>
    /\ \E c \in AllCommands(r.cmds) : c.IsHidden /\ c.Do = calls[1].do

\* A hidden command was suggested for a token that names nothing.
HiddenSuggested ==
    /\ pc = "built" /\ runs > 0 /\ r.errInit = NoErr
    /\ r.cmds = SortByName(IsHiddenCmds \o <<BuiltinHelp, BuiltinVersion>>)
    /\ r.args = <<fooo>> /\ out # <<>>

\* s comes before t in the order of Go's < on strings: byte by byte, a
\* proper prefix first.
Precedes(s, t) ==
    \E i \in 1..(Len(t)) :
        /\ \A k \in 1..(i - 1) : k <= Len(s) /\ s[k] = t[k]
        /\ i > Len(s) \/ Ascii[s[i]] < Ascii[t[i]]

\* No command of the list stands before one whose name precedes its own.
Ascending(list) == \A k \in 1..(Len(list) - 1) : ~Precedes(list[k + 1].Name, list[k].Name)

\* C20: after a construction without error the top-level list of the
\* Runner, with the builtins help and version in it, is sorted ascending by
\* name, and so is the list of children of every command at every depth,
\* whatever the order of the declaration.
C20_SortedAtEveryDepth ==
    Valid => /\ \A list \in SiblingLists(r.cmds) : Ascending(list)
             /\ \E k \in DOMAIN r.cmds : r.cmds[k] = BuiltinHelp
             /\ \E k \in DOMAIN r.cmds : r.cmds[k] = BuiltinVersion

\* The declaration was out of order at the top level and below it.
C20_Witness ==
    /\ Valid
    /\ ~Ascending(declared)
    /\ \E i \in DOMAIN declared : ~Ascending(declared[i].Subcommands)

RepeatedMiss ==
    pc = "built" /\ runs >= 2 /\ r.errInit = NoErr /\ calls = <<>> /\ ret # NoErr

\* Run was called and its resolution failed: no init error, no handler.
ResolutionFailed == Running /\ r.errInit = NoErr /\ calls = <<>> /\ ret # NoErr

\* The error of an interior command named by the last token.
ErrNoArgsForCommand == ErrorString("no args for command provided", "no args for command provided")

\* C22: every resolution error, "no such command" or the one of an interior
\* command matched by the last token, comes with a message written to the
\* output before it is returned, and a resolution that succeeds writes
\* nothing.
C22_ErrorsReported ==
    /\ ResolutionFailed => out # <<>>
    /\ (Running /\ calls # <<>> /\ calls[1].do.fn = "user") => out = <<>>

\* The same without the interior command matched by the last token.
MissesReported ==
    /\ (ResolutionFailed /\ ret # ErrNoArgsForCommand) => Len(out) = 2 * runs
    /\ (Running /\ calls # <<>> /\ calls[1].do.fn = "user") => out = <<>>

\* The command breaks a rule on names: a reserved word, or a name or an
\* alias with a character that no reading of the pattern allows.
BreaksNameRules(c) ==
    \/ Reserved(c.Name) \/ Reserved(c.Alias)
    \/ ~MatchesPattern(c.Name)
    \/ c.Alias # EmptyStr /\ ~MatchesPattern(c.Alias)

\* c is the one command of the tree that breaks a rule, and it breaks both
\* the rule on handler and children and a rule on names.
BreaksBothAlone(c) ==
    /\ ~HandlerXorChildren(c)
    /\ BreaksNameRules(c)
    /\ \A other \in AllCommands(declared) \ {c} :
          HandlerXorChildren(other) /\ NameRuleError(other) = NoErr
    /\ \A list \in SiblingLists(declared) : ~Collides(list)

\* The error of the rule on handler and children, for c.
HandlerViolation(c) ==
    "command " \o Quote(c.Name)
    \o (IF c.Do = NilFunc THEN " function cannot be nil or must have subcommands"
        ELSE " function cannot be set and have subcommands")

\* C23: when one command breaks both the rule on handler and children and
\* a rule on names (reserved word or pattern), validation reports the
\* violation of the first rule, and that one only.
C23_HandlerRuleFirst ==
    ValidationRan =>
        \A c \in AllCommands(declared) :
            BreaksBothAlone(c) => Len(r.errInit) = 1 /\ r.errInit[1].text = HandlerViolation(c)

\* TestRunnerInit's {Name: "foo%", Do: nil}: a leaf without a handler.
C23_Witness ==
    /\ ValidationRan
    /\ \E c \in AllCommands(declared) :
          /\ BreaksBothAlone(c)
          /\ c.Name = badName /\ c.Do = NilFunc /\ c.Subcommands = <<>>
          /\ r.errInit[1].text = HandlerViolation(c)

\* The error of a token that names no command of the list reached.
ErrNoSuchCommand(token) == ErrorString("no such command %q", "no such command " \o Quote(token))

\* C24: when the command matched is an interior one (no handler) and no
\* token is left after it, resolution fails with the error of missing
\* arguments and no handler is called; when tokens are left, resolution
\* goes on among the children of that command, and of no other, with the
\* tokens left.
C24_InteriorNode ==
    (Valid /\ Running) =>
        LET chain == Chain(r.cmds, r.args)
            n == Len(chain)
            found == findCmd(r.cfg, r.cmds, r.args)
        IN /\ (n > 0 /\ chain[n].Do = NilFunc) =>
                 /\ calls = <<>>
                 /\ IF n = Len(r.args)
                    THEN ret = ErrNoArgsForCommand /\ found.iterations = n
                    ELSE /\ ret = ErrNoSuchCommand(r.args[n + 1])
                         /\ found.cmds = chain[n].Subcommands
                         /\ found.iterations = n + 1
           /\ (n > 1 /\ chain[n].Do # NilFunc) =>
                 /\ found.cmds = chain[n - 1].Subcommands
                 /\ Len(calls) = runs
                 /\ \A k \in DOMAIN calls :
                       /\ calls[k].do = chain[n].Do
                       /\ calls[k].args = SubSeq(r.args, n + 1, Len(r.args))

\* The only token names an interior command, and Run failed on it.
C24_Witness ==
    /\ Valid /\ Running
    /\ Len(r.args) = 1
    /\ \E i \in DOMAIN r.cmds :
          r.cmds[i].Name = r.args[1] /\ r.cmds[i].Do = NilFunc /\ r.cmds[i].Subcommands # <<>>
    /\ ret = ErrNoArgsForCommand /\ calls = <<>>

\* Two interior commands were gone through to a handler, or to a miss among
\* the children of the second.
DescendedTwice ==
    /\ Valid /\ Running
    /\ Len(Chain(r.cmds, r.args)) >= 2 /\ Chain(r.cmds, r.args)[2].Do = NilFunc
    /\ Len(r.args) > 2
DescendedToMiss == DescendedTwice /\ calls = <<>>
DescendedToHandler == DescendedTwice /\ calls # <<>>

\* C25: a Run that succeeds calls one handler, once: the one of the leaf
\* reached by taking one token for each level from the front of the
\* arguments; the handler receives the tokens after the leaf's token, in
\* order, and none of them is taken for a command, even one that is the
\* name or the alias of a command.  A Run whose resolution fails, or whose
\* Runner holds an init error, calls no handler.
C25_OneHandlerOnce ==
    Running =>
        IF r.errInit # NoErr THEN calls = <<>> /\ usageCalls = <<>>
        ELSE LET chain == Chain(r.cmds, r.args)
                 n == Len(chain)
             IN IF n > 0 /\ chain[n].Do # NilFunc
                THEN /\ Len(calls) = runs
                     /\ \A k \in DOMAIN calls :
                           /\ calls[k].do = chain[n].Do
                           /\ calls[k].args = SubSeq(r.args, n + 1, Len(r.args))
                     /\ Len(usageCalls) = (IF chain[n].Do = HelpFunc THEN runs ELSE 0)
                ELSE calls = <<>> /\ usageCalls = <<>> /\ ret # NoErr

\* A handler was given a token that is the name of a command of the top
\* level, and that command was not called.
C25_Witness ==
    /\ Valid /\ Running /\ ret = NoErr
    /\ Len(calls) = 1 /\ calls[1].do.fn = "user"
    /\ \E t \in 1..Len(calls[1].args), i \in DOMAIN r.cmds :
          r.cmds[i].Name = calls[1].args[t] /\ r.cmds[i].Do # calls[1].do

\* The token is the name of the command or its declared alias.
NamesDeclared(token, c) == token = c.Name \/ (c.Alias # EmptyStr /\ token = c.Alias)

\* Chain with NamesDeclared for Names.
RECURSIVE DeclaredChain(_, _)
DeclaredChain(cmds, args) ==
    IF args = <<>> \/ ~\E i \in DOMAIN cmds : NamesDeclared(Head(args), cmds[i]) THEN <<>>
    ELSE LET c == cmds[CHOOSE i \in DOMAIN cmds :
                          /\ NamesDeclared(Head(args), cmds[i])
                          /\ \A k \in 1..(i - 1) : ~NamesDeclared(Head(args), cmds[k])]
         IN <<c>> \o DeclaredChain(c.Subcommands, Tail(args))

\* What C26 says of a Run on arguments args.
ExactMatchOnly(args) ==
    LET chain == DeclaredChain(r.cmds, args)
        n == Len(chain)
    IN /\ (n < Len(args) /\ (n = 0 \/ chain[n].Do = NilFunc)) =>
             ret = ErrNoSuchCommand(args[n + 1]) /\ calls = <<>>
       /\ calls # <<>> => n > 0 /\ \A k \in DOMAIN calls : calls[k].do = chain[n].Do

\* C26: resolution selects a command only for a token that is its name or
\* its declared, non-empty alias; a token that is neither for any sibling,
\* the empty token included, gives "no such command" and no handler runs.
C26_ExactMatchOnly == (Valid /\ Running) => ExactMatchOnly(r.args)

\* The same for the arguments without an empty token.
ExactMatchOfNonEmpty ==
    (Valid /\ Running /\ \A i \in DOMAIN r.args : r.args[i] # EmptyStr) => ExactMatchOnly(r.args)

\* No token of the arguments after the program name is an option: none
\* begins with a dash.
OptionFree ==
    r.cfg.Args.nil \/ \A i \in 2..Len(r.cfg.Args.elems) : ~HasPrefix(r.cfg.Args.elems[i], <<"-">>)

\* The Runner, had it been made from the same commands and configuration
\* with a nil options list.
WithoutOptions == init([NoRunner EXCEPT !.cmds = declared, !.opts = NilSlice, !.cfg = r.cfg])

\* The Runner resolves as the one made without options does, and the
\* context holds the default of every option.
DispatchesAsWithoutOptions ==
    /\ r.errInit = WithoutOptions.err
    /\ r.cmds = WithoutOptions.r.cmds
    /\ r.args = WithoutOptions.r.args
    /\ r.errInit = NoErr =>
          \A i \in DOMAIN r.opts.elems :
              \E k \in DOMAIN r.ctx.values :
                  /\ r.ctx.values[k] = <<r.opts.elems[i].Name, r.opts.elems[i].DefaultValue.value>>
                  /\ \A m \in (k + 1)..Len(r.ctx.values) : r.ctx.values[m][1] # r.opts.elems[i].Name

\* C27: for arguments without option tokens, a Runner made with an options
\* list that is not nil resolves as the Runner made with options nil does
\* (same handler and residual arguments, or same error and suggestion),
\* the command token being a command's name, a builtin, an alias or
\* unknown, and every option has its DefaultValue in the context.
C27_OptionsOmitted ==
    (pc = "built" /\ ~r.opts.nil /\ OptionFree) => DispatchesAsWithoutOptions

\* The same when the command token is the name of a top-level command of
\* the caller.
OptionsOmittedForNames ==
    (/\ pc = "built" /\ ~r.opts.nil /\ OptionFree
     /\ ~r.cfg.Args.nil /\ Len(r.cfg.Args.elems) >= 2
     /\ \E i \in DOMAIN declared : declared[i].Name = r.cfg.Args.elems[2])
    => DispatchesAsWithoutOptions

\* The error is ErrCode(0) or wraps it.
CarriesCodeZero(err) == \E i \in DOMAIN err : err[i].type = "ErrCode" /\ err[i].code = 0

\* C28: Exit asks for status 0 only when its argument is nil: every error
\* that is not nil, an ErrCode wrapped by Run or not included, gives a
\* status other than 0.
C28_ZeroOnlyForNil == (pc = "exited" /\ Last(exits).status = 0) => ret = NoErr

\* C28, amended: Exit asks for status 0 when its argument is nil and when it
\* is or wraps ErrCode(0), and in no other case; the error line is written
\* for ErrCode(0) as for every error.
C28_ZeroForNilOrCodeZero ==
    pc = "exited" =>
        /\ Last(exits).status = 0 <=> (ret = NoErr \/ CarriesCodeZero(ret))
        /\ ret # NoErr => Last(out) = Str(r.cfg.AppName) \o ": " \o ErrorText(ret) \o "\n"

\* Exit was given the error of a Run whose handler returned ErrCode(0).
C28_Witness ==
    /\ pc = "exited" /\ runs > 0 /\ calls # <<>>
    /\ Last(calls).result = ErrCode(0)
    /\ CarriesCodeZero(ret) /\ Len(ret) = 2
    /\ Last(exits).status = 0

\* C29: resolution ends: it starts on a non-empty list of arguments, each
\* turn of its loop takes one token, so that it ends resolved or failed
\* after at most as many turns as there are arguments, never takes the
\* first element of an empty list, and each turn is one level further
\* down the tree.
C29_ResolutionEnds ==
    /\ (pc = "built" /\ r.errInit = NoErr) =>
          LET found == findCmd(r.cfg, r.cmds, r.args)
              turns == found.iterations
          IN /\ Len(r.args) > 0
             /\ found.state \in {"resolved", "failed"}
             /\ 1 <= turns /\ turns <= Len(r.args)
             /\ found.selected = r.args[turns]
             /\ found.state = "resolved" => found.params = SubSeq(r.args, turns + 1, Len(r.args))
             /\ found.cmds = IF turns = 1 THEN r.cmds
                             ELSE Chain(r.cmds, r.args)[turns - 1].Subcommands
    /\ pc = "panic" => runs = 0

\* Resolution took as many turns as there are arguments, three, and failed
\* at the last.
C29_Witness ==
    /\ Valid /\ Running
    /\ Len(r.args) = 3
    /\ findCmd(r.cfg, r.cmds, r.args).iterations = 3
    /\ findCmd(r.cfg, r.cmds, r.args).state = "failed"

\* The names and the declared aliases of the commands of a list.
WordsOf(list) ==
    {list[i].Name : i \in DOMAIN list} \cup ({list[i].Alias : i \in DOMAIN list} \ {EmptyStr})

\* The list holds one command of that name, and it is a leaf with a handler.
OneLeafNamed(list, name) ==
    /\ Cardinality({i \in DOMAIN list : list[i].Name = name}) = 1
    /\ \A i \in DOMAIN list :
          list[i].Name = name => list[i].Do # NilFunc /\ list[i].Subcommands = <<>>

\* C30: after a construction without error the tree with the builtins is
\* free of collisions: the top-level list holds one command named help and
\* one named version, both leaves, and at every level no two siblings share
\* a name, share a declared alias, or have the name of one as the alias of
\* the other, so that a non-empty token matches at most one sibling.
C30_UniqueWithBuiltins ==
    Valid =>
        /\ OneLeafNamed(r.cmds, help) /\ OneLeafNamed(r.cmds, version)
        /\ \A list \in SiblingLists(r.cmds) :
              /\ ~Collides(list)
              /\ \A token \in WordsOf(list) :
                    Cardinality({i \in DOMAIN list : NamesDeclared(token, list[i])}) = 1

\* A Runner was made from commands with aliases, the builtins beside them.
C30_Witness ==
    /\ Valid
    /\ Len(r.cmds) = Len(declared) + 2
    /\ \E i, j \in DOMAIN r.cmds : i # j /\ r.cmds[i].Alias # EmptyStr /\ r.cmds[j].Alias # EmptyStr
    /\ \E k \in DOMAIN r.cmds : r.cmds[k] = BuiltinHelp

====
